---- MODULE Spec2Model ----
(***************************************************************************)
(* State-machine model of pgv_faiss's index wrapper (class FAISSWrapper).  *)
(* The repository builds the class from one of two translation units:      *)
(* the FAISS-backed one (faiss_wrapper.cpp) or the fallback one            *)
(* (faiss_stub.cpp).  `build` says which one the handle was compiled from. *)
(* Vectors have dimension 1 and small integer components; the distance is  *)
(* the squared Euclidean distance of the library's METRIC_L2.              *)
(* Further parts model a second wrapper object, the constructor of the     *)
(* WITH_GPU build, the storage connection (class PGVConnection) over a     *)
(* small database, and a caller of the C API of pgv_faiss.h; the heap      *)
(* objects of a constructor call and two clients saving an index at the    *)
(* same time come last.                                                    *)
(***************************************************************************)
EXTENDS Integers, Sequences, FiniteSets, TLC

\* ---------------------------------------------------------------- bounds
\* Most vectors one index holds.
MaxVecs == 3
\* Largest k of a search call.
MaxK == 2
\* Vector components, caller-assigned identifiers, query values.
Vals == {0, 1}
Ids == {1, 2}
\* Number of inverted lists of the IVFFlat index (ncentroids, scaled down);
\* it is also the least number of points the library's k-means accepts.
NList == 2
\* Largest batch of one add_vectors / train call: enough to train on.
MaxBatch == NList
\* Most vectors two indexes of one program hold together.
PairVecs == 2
\* Most search results a caller of the C API has allocated for it.
MaxResults == 2
\* Most rows one vector table holds.
MaxRows == 2
\* Most rows the SERIAL column of one index table ever numbers.
MaxSaves == 3
\* Values std::uniform_real_distribution may hand the fallback search.
RandDists == {1, 2}

\* dimension_: every handle of the model is built for vectors of one float.
Dimension == 1

\* size_t(100000) in FAISSWrapper::train, scaled down with ncentroids: the
\* cap is no smaller than the number of clusters.
TrainCap == NList

Builds == {"faiss", "stub"}
IndexTypes == {"Flat", "IVFFlat", "HNSW", "LSH"}

\* A null pointer argument (vectors, ids, training_data).
NULL == <<-1>>
\* A null query pointer.
NullQuery == -1
\* The library's "no result" label and its distance slot.
NoLabel == -1
NoDist == -1

Min(a, b) == IF a < b THEN a ELSE b

\* The count vectors an operation reads through a float pointer: the first
\* count * dimension_ floats of the caller's buffer, however the caller laid
\* it out.
Read(buffer, count) == SubSeq(buffer, 1, count * Dimension)

SeqsUpTo(S, n) == UNION {[1..m -> S] : m \in 0..n}

\* ------------------------------------------------- the underlying index
\* faiss::IndexFlatL2 / IndexIVFFlat / IndexHNSWFlat as the wrapper sees
\* them: is_trained, ntotal (= Len(ids)), the stored vectors and labels,
\* and for IVFFlat the centroids training learnt.  ntrain counts the
\* completed train() runs of the structure.
NewIndex(kind) ==
    [kind |-> kind, is_trained |-> (kind # "IVFFlat"), centroids |-> <<>>,
     ids |-> <<>>, vectors |-> <<>>, ntrain |-> 0]

\* struct FakeIndex of the fallback build.
FakeIndex ==
    [kind |-> "Fake", is_trained |-> FALSE, centroids |-> <<>>,
     ids |-> <<>>, vectors |-> <<>>, ntrain |-> 0]

create_index_unknown_is_ivf(b, index_type) ==
    IF b = "stub" THEN FakeIndex
    ELSE IF index_type = "Flat" THEN NewIndex("Flat")
    ELSE IF index_type = "HNSW" THEN NewIndex("HNSW")
    ELSE NewIndex("IVFFlat")

\* FAISSWrapper::create_index: one branch per known index type, and the
\* brute-force L2 index for any other string.  The fallback build makes its
\* FakeIndex whatever the string.
create_index(b, index_type) ==
    IF b = "stub" THEN FakeIndex
    ELSE IF index_type = "Flat" THEN NewIndex("Flat")
    ELSE IF index_type = "IVFFlat" THEN NewIndex("IVFFlat")
    ELSE IF index_type = "HNSW" THEN NewIndex("HNSW")
    ELSE NewIndex("Flat")

\* The constructor: trained_(false) in the FAISS build, trained_(true) in
\* the fallback build.
FAISSWrapper(b, index_type) ==
    [index_type_ |-> index_type,
     trained_ |-> (b = "stub"),
     index_ |-> create_index(b, index_type)]

is_trained_no_index_flag(b, w) == w.trained_

is_trained(b, w) ==
    IF b = "stub" THEN w.trained_
    ELSE w.index_.is_trained \/ w.trained_

get_ntotal(b, w) == Len(w.index_.ids)

\* ------------------------------------------------------ library: training
\* index_->train(n, x).  The k-means of an inverted-file index throws when it
\* is given fewer points than clusters, and any call may fail for lack of
\* memory (fault); otherwise the centroids cent are learnt from the points.
LibTrainThrows(idx, n, fault) == fault \/ (idx.kind = "IVFFlat" /\ n < NList)

LibTrain(idx, cent) ==
    [idx EXCEPT !.is_trained = TRUE, !.centroids = cent, !.ntrain = @ + 1]

\* Centroids k-means can return for the points x: values among the points.
Centroids(x) == [1..NList -> {x[i] : i \in 1..Len(x)}]

training_set_whole_batch(training_data, count) == Read(training_data, count)

\* The vectors index_->train(training_size, training_data) reads: the first
\* min(count, 100000) of the caller's.
training_set(training_data, count) ==
    Read(training_data, Min(count, TrainCap))

train_unguarded(b, w, training_data, count, fault, cent) ==
    IF b = "stub" THEN [w EXCEPT !.trained_ = TRUE]
    ELSE IF training_data = NULL \/ count = 0 THEN w
    ELSE LET training_size == Min(count, TrainCap)
         IN IF LibTrainThrows(w.index_, training_size, fault) THEN w
            ELSE [w EXCEPT !.index_ = LibTrain(@, cent), !.trained_ = TRUE]

train_keeps_data(b, w, training_data, count, fault, cent) ==
    IF b = "stub" THEN [w EXCEPT !.trained_ = TRUE]
    ELSE IF training_data = NULL \/ count = 0 THEN w
    ELSE IF ~w.index_.is_trained
         THEN LET training_size == Min(count, TrainCap)
              IN IF LibTrainThrows(w.index_, training_size, fault) THEN w
                 ELSE [w EXCEPT !.index_ = LibTrain([@ EXCEPT !.vectors = training_data,
                                                              !.ids = training_data], cent),
                                !.trained_ = TRUE]
         ELSE [w EXCEPT !.trained_ = TRUE]

\* FAISSWrapper::train.  An exception of the library is caught and logged:
\* trained_ is then left as it was.
train(b, w, training_data, count, fault, cent) ==
    IF b = "stub" THEN [w EXCEPT !.trained_ = TRUE]
    ELSE IF training_data = NULL \/ count = 0 THEN w
    ELSE IF ~w.index_.is_trained
         THEN LET training_size == Min(count, TrainCap)
              IN IF LibTrainThrows(w.index_, training_size, fault) THEN w
                 ELSE [w EXCEPT !.index_ = LibTrain(@, cent), !.trained_ = TRUE]
         ELSE [w EXCEPT !.trained_ = TRUE]

\* --------------------------------------------------------- library: add
\* index_->add_with_ids / index_->add.  An inverted-file index refuses
\* vectors before it is trained; any call may fail (fault: out of memory,
\* add_with_ids not offered by the structure).
LibAddThrows(idx, fault) == fault \/ ~idx.is_trained

\* add(n, x) numbers the vectors ntotal, ntotal+1, ...
SequentialIds(idx, count) == [i \in 1..count |-> Len(idx.ids) + i - 1]

LibAdd(idx, vectors, ids) ==
    [idx EXCEPT !.vectors = @ \o vectors, !.ids = @ \o ids]

add_vectors_swallow(b, w, vectors, ids, count, fault, cent) ==
    IF b = "stub"
    THEN [w |-> [w EXCEPT !.index_ = LibAdd(@, Read(vectors, count), ids)], ret |-> 0]
    ELSE IF vectors = NULL \/ count = 0 THEN [w |-> w, ret |-> -1]
    ELSE LET w1 == IF ~is_trained(b, w) /\ w.index_type_ = "IVFFlat"
                   THEN train(b, w, vectors, count, fault.train, cent)
                   ELSE w
             labels == IF ids # NULL THEN ids ELSE SequentialIds(w1.index_, count)
         IN IF LibAddThrows(w1.index_, fault.add)
            THEN [w |-> w1, ret |-> 0]
            ELSE [w |-> [w1 EXCEPT !.index_ = LibAdd(@, Read(vectors, count), labels)],
                  ret |-> 0]

add_vectors_partial(b, w, vectors, ids, count, fault, cent) ==
    IF b = "stub"
    THEN [w |-> [w EXCEPT !.index_ = LibAdd(@, Read(vectors, count), ids)], ret |-> 0]
    ELSE IF vectors = NULL \/ count = 0 THEN [w |-> w, ret |-> -1]
    ELSE LET w1 == IF ~is_trained(b, w) /\ w.index_type_ = "IVFFlat"
                   THEN train(b, w, vectors, count, fault.train, cent)
                   ELSE w
             labels == IF ids # NULL THEN ids ELSE SequentialIds(w1.index_, count)
         IN IF LibAddThrows(w1.index_, fault.add)
            THEN [w |-> [w1 EXCEPT !.index_ = LibAdd(@, Read(vectors, 1),
                                                     SubSeq(labels, 1, 1))],
                  ret |-> -2]
            ELSE [w |-> [w1 EXCEPT !.index_ = LibAdd(@, Read(vectors, count), labels)],
                  ret |-> 0]

\* FAISSWrapper::add_vectors.  The fallback build copies count vectors and
\* ids without any check; the FAISS build rejects a null vectors pointer and
\* a zero count with -1, trains an untrained IVFFlat handle on the batch,
\* adds, and turns an exception into -2.
add_vectors(b, w, vectors, ids, count, fault, cent) ==
    IF b = "stub"
    THEN [w |-> [w EXCEPT !.index_ = LibAdd(@, Read(vectors, count), ids)], ret |-> 0]
    ELSE IF vectors = NULL \/ count = 0 THEN [w |-> w, ret |-> -1]
    ELSE LET w1 == IF ~is_trained(b, w) /\ w.index_type_ = "IVFFlat"
                   THEN train(b, w, vectors, count, fault.train, cent)
                   ELSE w
             labels == IF ids # NULL THEN ids ELSE SequentialIds(w1.index_, count)
         IN IF LibAddThrows(w1.index_, fault.add)
            THEN [w |-> w1, ret |-> -2]
            ELSE [w |-> [w1 EXCEPT !.index_ = LibAdd(@, Read(vectors, count), labels)],
                  ret |-> 0]

\* ------------------------------------------------------ library: search
Dist(v, q) == (v - q) * (v - q)

\* The inverted list of a value: the nearest centroid, the first on a tie.
Assign(cent, v) ==
    CHOOSE i \in 1..Len(cent) :
        \A j \in 1..Len(cent) :
            Dist(cent[i], v) < Dist(cent[j], v)
            \/ (Dist(cent[i], v) = Dist(cent[j], v) /\ i <= j)

\* The stored positions a query scans: all of them in a Flat or HNSW
\* index; in an IVFFlat index the one list the query falls in (nprobe is
\* never set by the wrapper and stays at the library's 1), none before the
\* index is trained.
Scanned(idx, q) ==
    IF idx.kind = "IVFFlat"
    THEN IF idx.is_trained
         THEN {p \in 1..Len(idx.ids) :
                  Assign(idx.centroids, idx.vectors[p]) = Assign(idx.centroids, q)}
         ELSE {}
    ELSE 1..Len(idx.ids)

\* Order of the library's result heap: distance, then label, then position.
Before(idx, q, a, b) ==
    LET da == Dist(idx.vectors[a], q)
        db == Dist(idx.vectors[b], q)
    IN \/ da < db
       \/ da = db /\ idx.ids[a] < idx.ids[b]
       \/ da = db /\ idx.ids[a] = idx.ids[b] /\ a < b

Ranked(idx, q) ==
    LET cand == Scanned(idx, q)
    IN [r \in 1..Cardinality(cand) |->
           CHOOSE p \in cand :
               Cardinality({c \in cand : Before(idx, q, c, p)}) = r - 1]

\* index_->search(1, query, k, distances, labels): k slots, the unused ones
\* holding the label -1.
LibSearch(idx, q, k) ==
    LET ord == Ranked(idx, q)
    IN [i \in 1..k |->
           IF i <= Len(ord)
           THEN [label |-> idx.ids[ord[i]], distance |-> Dist(idx.vectors[ord[i]], q)]
           ELSE [label |-> NoLabel, distance |-> NoDist]]

IsSorted(r) == \A i \in 1..(Len(r) - 1) : r[i].distance <= r[i + 1].distance

Injections(n) == {f \in [1..n -> 1..n] : \A i, j \in 1..n : f[i] = f[j] => i = j}

\* The fallback search: the first min(k, size) ids in insertion order, each
\* with a random distance, then std::sort by distance alone (the order of
\* equal distances is whatever the sort leaves).
StubSearch(w, k) ==
    LET count == Min(k, Len(w.index_.ids))
    IN {r \in UNION {{[i \in 1..count |->
                          [id |-> w.index_.ids[f[i]], distance |-> rand[f[i]]]]
                      : f \in Injections(count)}
                     : rand \in [1..count -> RandDists]} :
           IsSorted(r)}

Hit(e) == [id |-> e.label, distance |-> e.distance]

FaissSearch_keep_padding(w, q, k) ==
    IF q = NullQuery \/ k = 0 THEN <<>>
    ELSE LET found == LibSearch(w.index_, q, k)
         IN [i \in 1..Len(found) |-> Hit(found[i])]

\* The FAISS build's search: the k slots the library filled, without the
\* ones whose label is negative.
FaissSearch(w, q, k) ==
    IF q = NullQuery \/ k = 0 THEN <<>>
    ELSE LET found == LibSearch(w.index_, q, k)
             kept == SelectSeq(found, LAMBDA e : e.label >= 0)
         IN [i \in 1..Len(kept) |-> Hit(kept[i])]

search_implicit_train(b, w, q, k) ==
    IF b = "stub"
    THEN {[w |-> w, results |-> r] : r \in StubSearch(w, k)}
    ELSE {[w |-> [w EXCEPT !.trained_ = TRUE], results |-> FaissSearch(w, q, k)]}

\* FAISSWrapper::search: the possible return values, with the handle as the
\* call leaves it.
search(b, w, q, k) ==
    IF b = "stub"
    THEN {[w |-> w, results |-> r] : r \in StubSearch(w, k)}
    ELSE {[w |-> w, results |-> FaissSearch(w, q, k)]}

\* -------------------------------------------------------- serialisation
\* Byte sequences: the empty one, one no reader accepts, the fallback's
\* constant string, and what faiss::write_index writes for an index.
EmptyBlob == [fmt |-> "empty"]
Garbage == [fmt |-> "garbage"]
StubBlob == [fmt |-> "stub_faiss_index_v1.0"]
WriteIndex(idx) == [fmt |-> "faiss", index |-> idx]
ReadIndexThrows(data) == data.fmt # "faiss"
ReadIndex(data) == data.index

\* FAISSWrapper::serialize: an exception of write_index leaves data empty.
serialize(b, w, fault) ==
    IF b = "stub" THEN StubBlob
    ELSE IF fault THEN EmptyBlob
    ELSE WriteIndex(w.index_)

deserialize_keep_flag(b, w, data) ==
    IF b = "stub" THEN [w |-> w, ret |-> 0]
    ELSE IF data = EmptyBlob THEN [w |-> w, ret |-> -1]
    ELSE IF ReadIndexThrows(data) THEN [w |-> w, ret |-> -3]
    ELSE [w |-> [w EXCEPT !.index_ = ReadIndex(data)], ret |-> 0]

\* FAISSWrapper::deserialize: -1 for empty data, -3 when read_index throws,
\* else the index is replaced and trained_ follows it.  (read_index never
\* returns null, so the -2 branch is not taken.)  The fallback accepts
\* anything and does nothing.
deserialize(b, w, data) ==
    IF b = "stub" THEN [w |-> w, ret |-> 0]
    ELSE IF data = EmptyBlob THEN [w |-> w, ret |-> -1]
    ELSE IF ReadIndexThrows(data) THEN [w |-> w, ret |-> -3]
    ELSE LET loaded_index == ReadIndex(data)
         IN [w |-> [w EXCEPT !.index_ = loaded_index,
                             !.trained_ = loaded_index.is_trained],
             ret |-> 0]

\* ---------------------------------------------------------------- state
VARIABLES
    build,    \* which translation unit the wrapper was compiled from
    handle,   \* the FAISSWrapper object
    blob,     \* the bytes the last serialize call returned
    saved,    \* the handle as it was when those bytes were written
    other,    \* a second FAISSWrapper object of the same program, if any
    conn,     \* PGVConnection::conn_: "null", "ok", or "bad" (link lost)
    tables,   \* the database: the <name>_faiss_index table of every name
    acked,    \* per name, the bytes of the last save_index that returned 0
    capi,     \* a caller of the C API: its index pointer, its result, its blocks
    heap,     \* the objects the second wrapper's constructors left allocated
    savers,   \* two more connections, each with the save_index call it is in
    last      \* the last call: its name, arguments and return value

\* What lies outside the wrapper objects.
outside == <<conn, tables, acked, capi, heap, savers>>

vars == <<build, handle, blob, saved, other, outside, last>>

\* No object: the second wrapper before its construction, after its
\* destruction, or when its constructor threw.
NoHandle == [index_type_ |-> "none"]

\* The arguments and the environment of a constructor call.
NoCtor ==
    [index_type |-> "none", use_gpu |-> FALSE, gpu_device |-> 0, ndev |-> 0,
     thrown |-> FALSE]

NoCall ==
    [op |-> "none", status |-> 0, results |-> <<>>, k |-> 0, q |-> NullQuery,
     data |-> EmptyBlob, veclen |-> Dimension, ctor |-> NoCtor,
     table |-> "none", obj |-> "handle", args |-> "none", thrown |-> FALSE]

\* pgv_faiss_result_t zeroed: null arrays, count 0.  Heap blocks are
\* numbered from 1; 0 is the null pointer.
EmptyResult == [ids |-> 0, distances |-> 0, count |-> 0]

\* A program that has not called pgv_faiss_init: a null index pointer, a
\* zeroed result, nothing allocated.  made counts the blocks handed out,
\* used holds the ones not released, fault records a release of a block
\* that was not in use or of an index that was not live.
NoApi ==
    [index |-> "null", result |-> EmptyResult, made |-> 0, used |-> {},
     fault |-> FALSE]

\* The table names callers use.  Per name the database holds the vector
\* table <name> (its rows are embeddings; create_table has made it) and the
\* index table <name>_faiss_index (exists, rows, serial), which nobody has
\* created yet.
Keys == {"t1", "t2"}
NoTable == [exists |-> FALSE, rows |-> <<>>, serial |-> 1, embeddings |-> <<>>]

\* Two further PGVConnection objects of other clients, both connected.  A
\* client is idle or inside a save_index call, before the statement pc names.
Clients == {"a", "b"}
Idle == [conn_ |-> "ok", pc |-> "idle", table |-> "none", index_data |-> EmptyBlob,
         status |-> 0]

\* PGVConnection's constructor (conn_(nullptr)) over an empty database.
InitOutside ==
    /\ conn = "null"
    /\ tables = [key \in Keys |-> NoTable]
    /\ acked = [key \in Keys |-> EmptyBlob]
    /\ capi = NoApi
    /\ heap = {}
    /\ savers = [client \in Clients |-> Idle]

Init ==
    /\ build \in Builds
    /\ \E t \in IndexTypes : handle = FAISSWrapper(build, t)
    /\ blob = EmptyBlob
    /\ saved = handle
    /\ other = NoHandle
    /\ InitOutside
    /\ last = NoCall

\* The batches a caller passes: count vectors with count ids, or a null
\* vectors pointer.  The fallback build reads both pointers unchecked, so it
\* is only ever given valid ones; every caller of the repository passes ids.
Batches ==
    UNION {{[vectors |-> v, ids |-> i, count |-> n] :
               v \in [1..n -> Vals], i \in [1..n -> Ids]} : n \in 0..MaxBatch}

NullBatch == [vectors |-> NULL, ids |-> NULL, count |-> 1]

\* The add_vectors calls whose training gate opens on a batch the library
\* can train on: they are told apart further by whether that training fails
\* for a reason of its own and by the centroids it learns.
TrainsOn(w, bt) ==
    /\ build = "faiss"
    /\ bt.vectors # NULL
    /\ bt.count >= NList
    /\ ~is_trained(build, w)
    /\ w.index_type_ = "IVFFlat"

Add ==
    /\ last = NoCall
    /\ \E bt \in Batches \cup (IF build = "faiss" THEN {NullBatch} ELSE {}),
          addFault \in (IF build = "faiss" THEN BOOLEAN ELSE {FALSE}) :
         /\ get_ntotal(build, handle) + bt.count <= MaxVecs
         /\ \E trainFault \in (IF TrainsOn(handle, bt) THEN BOOLEAN ELSE {FALSE}),
               cent \in (IF TrainsOn(handle, bt)
                         THEN Centroids(bt.vectors) ELSE {<<>>}) :
              LET out == add_vectors(build, handle, bt.vectors, bt.ids, bt.count,
                                     [train |-> trainFault, add |-> addFault], cent)
              IN /\ handle' = out.w
                 /\ last' = [NoCall EXCEPT !.op = "add", !.status = out.ret]
    /\ UNCHANGED <<build, blob, saved, other, outside>>

Train ==
    /\ last = NoCall
    /\ \E x \in SeqsUpTo(Vals, MaxBatch) \cup {NULL} :
         LET learns == /\ build = "faiss" /\ x # NULL /\ Len(x) >= NList
                       /\ ~handle.index_.is_trained
         IN \E fault \in (IF learns THEN BOOLEAN ELSE {FALSE}),
               cent \in (IF learns THEN Centroids(x) ELSE {<<>>}) :
              handle' = train(build, handle, x, IF x = NULL THEN 1 ELSE Len(x),
                              fault, cent)
    /\ last' = [NoCall EXCEPT !.op = "train"]
    /\ UNCHANGED <<build, blob, saved, other, outside>>

Search ==
    /\ last = NoCall
    /\ \E q \in Vals \cup {NullQuery}, k \in 0..MaxK :
         \E out \in search(build, handle, q, k) :
           /\ handle' = out.w
           /\ last' = [NoCall EXCEPT !.op = "search", !.results = out.results,
                                     !.k = k, !.q = q]
    /\ UNCHANGED <<build, blob, saved, other, outside>>

Serialize ==
    /\ last = NoCall
    /\ \E fault \in (IF build = "faiss" THEN BOOLEAN ELSE {FALSE}) :
         /\ blob' = serialize(build, handle, fault)
         /\ saved' = IF blob' = EmptyBlob THEN saved ELSE handle
         /\ last' = [NoCall EXCEPT !.op = "serialize", !.data = blob']
    /\ UNCHANGED <<build, handle, other, outside>>

Deserialize ==
    /\ last = NoCall
    /\ \E data \in {blob, EmptyBlob, Garbage} :
         LET out == deserialize(build, handle, data)
         IN /\ handle' = out.w
            /\ last' = [NoCall EXCEPT !.op = "deserialize", !.status = out.ret,
                                      !.data = data]
    /\ UNCHANGED <<build, blob, saved, other, outside>>

\* Calls on one handle are made one at a time (the wrapper has no lock): the
\* caller takes the return value of a call before it makes the next.
Return ==
    /\ last # NoCall
    /\ last' = NoCall
    /\ UNCHANGED <<build, handle, blob, saved, other, outside>>

Next == Add \/ Train \/ Search \/ Serialize \/ Deserialize \/ Return

Spec == Init /\ [][Next]_vars

\* Calls whose caller laid its vectors out with WideLen floats each, on a
\* handle built for Dimension floats: the operations take the same float
\* pointer and count, and read count * dimension_ floats from it.
WideLen == Dimension + 1

WideBatches ==
    UNION {{[vectors |-> v, ids |-> i, count |-> n] :
               v \in [1..(n * WideLen) -> Vals], i \in [1..n -> Ids]}
           : n \in 1..MaxBatch}

AddMismatched ==
    /\ last = NoCall
    /\ \E bt \in WideBatches,
          addFault \in (IF build = "faiss" THEN BOOLEAN ELSE {FALSE}) :
         /\ get_ntotal(build, handle) + bt.count <= MaxVecs
         /\ \E trainFault \in (IF TrainsOn(handle, bt) THEN BOOLEAN ELSE {FALSE}),
               cent \in (IF TrainsOn(handle, bt)
                         THEN Centroids(Read(bt.vectors, bt.count)) ELSE {<<>>}) :
              LET out == add_vectors(build, handle, bt.vectors, bt.ids, bt.count,
                                     [train |-> trainFault, add |-> addFault], cent)
              IN /\ handle' = out.w
                 /\ last' = [NoCall EXCEPT !.op = "add", !.status = out.ret,
                                           !.veclen = WideLen]
    /\ UNCHANGED <<build, blob, saved, other, outside>>

SearchMismatched ==
    /\ last = NoCall
    /\ \E query \in [1..WideLen -> Vals], k \in 1..MaxK :
         \E out \in search(build, handle, Read(query, 1)[1], k) :
           /\ handle' = out.w
           /\ last' = [NoCall EXCEPT !.op = "search", !.results = out.results,
                                     !.k = k, !.q = Read(query, 1)[1],
                                     !.veclen = WideLen]
    /\ UNCHANGED <<build, blob, saved, other, outside>>

NextDim == Add \/ Search \/ AddMismatched \/ SearchMismatched \/ Return

SpecDim == Init /\ [][NextDim]_vars

\* Batches longer than the training cap, numbered 1, 2, ... by the caller.
LongBatches ==
    UNION {{[vectors |-> v, ids |-> [i \in 1..n |-> i], count |-> n] :
               v \in [1..n -> Vals]} : n \in 1..(TrainCap + 1)}

\* add_vectors with such a batch: when the call trains, the centroids are
\* learnt from the vectors train() hands the library.
AddLong ==
    /\ last = NoCall
    /\ \E bt \in LongBatches,
          addFault \in (IF build = "faiss" THEN BOOLEAN ELSE {FALSE}) :
         /\ get_ntotal(build, handle) + bt.count <= MaxVecs
         /\ \E trainFault \in (IF TrainsOn(handle, bt) THEN BOOLEAN ELSE {FALSE}),
               cent \in (IF TrainsOn(handle, bt)
                         THEN Centroids(training_set(bt.vectors, bt.count))
                         ELSE {<<>>}) :
              LET out == add_vectors(build, handle, bt.vectors, bt.ids, bt.count,
                                     [train |-> trainFault, add |-> addFault], cent)
              IN /\ handle' = out.w
                 /\ last' = [NoCall EXCEPT !.op = "add", !.status = out.ret,
                                           !.args = bt]
    /\ UNCHANGED <<build, blob, saved, other, outside>>

NextCap == AddLong \/ Search \/ Return

SpecCap == Init /\ [][NextCap]_vars

\* Every operation of the wrapper, the add calls with their batch on record.
NextCount == AddLong \/ Train \/ Search \/ Serialize \/ Deserialize \/ Return

SpecCount == Init /\ [][NextCount]_vars

\* The life of a handle that is never restored from a blob.
NextLife == Add \/ Train \/ Search \/ Serialize \/ Return

SpecLife == Init /\ [][NextLife]_vars

\* ------------------------------------------------ construction with a GPU
\* The FAISS translation unit compiled with WITH_GPU is a third build.
GpuBuild == "faiss_gpu"
AllBuilds == Builds \cup {GpuBuild}

\* What the machine offers: faiss::gpu::getNumDevices(), and whether a CUDA
\* call of this constructor run fails: in the constructor of
\* StandardGpuResources ("alloc") or in that of the GPU index ("index").
DeviceCounts == 0..1
DeviceIds == 0..1
GpuFaults == {"none", "alloc", "index"}

\* FAISSWrapper::setup_gpu_resources of faiss_wrapper.cpp: a missing device
\* clears use_gpu_; the resources are then made with no handler around.
setup_gpu_resources(gpu_device, ndev, fault) ==
    IF ndev <= gpu_device THEN [use_gpu_ |-> FALSE, thrown |-> FALSE]
    ELSE [use_gpu_ |-> TRUE, thrown |-> (fault = "alloc")]

\* create_index with WITH_GPU: the Flat and IVFFlat branches build the GPU
\* index when use_gpu_ is set, again with no handler around.
create_index_gpu(index_type, use_gpu_, fault) ==
    IF use_gpu_ /\ index_type \in {"Flat", "IVFFlat"}
    THEN [thrown |-> (fault = "index"),
          index |-> IF index_type = "Flat" THEN NewIndex("GpuFlat")
                    ELSE [NewIndex("GpuIVFFlat") EXCEPT !.is_trained = FALSE]]
    ELSE [thrown |-> FALSE, index |-> create_index("faiss", index_type)]

\* The constructor with its use_gpu and gpu_device arguments: the object
\* it leaves, or none when an exception left it.
construct(b, index_type, use_gpu, gpu_device, ndev, fault) ==
    IF b # GpuBuild \/ ~use_gpu
    THEN [thrown |-> FALSE, w |-> FAISSWrapper(b, index_type)]
    ELSE LET res == setup_gpu_resources(gpu_device, ndev, fault)
             made == create_index_gpu(index_type, res.use_gpu_, fault)
         IN IF res.thrown \/ made.thrown
            THEN [thrown |-> TRUE, w |-> NoHandle]
            ELSE [thrown |-> FALSE,
                  w |-> [FAISSWrapper("faiss", index_type) EXCEPT !.index_ = made.index]]

GpuBacked(w) == w # NoHandle /\ w.index_.kind \in {"GpuFlat", "GpuIVFFlat"}

\* The objects a constructor call makes with new / make_unique, by kind.
HeapObjects == {"index", "quantizer", "gpu_resources"}

\* What create_index allocates: the IVFFlat branch makes its quantizer
\* first, whichever index it then builds; an index whose constructor threw
\* is not allocated.
create_index_allocates(b, index_type, index_thrown) ==
    (IF b # "stub" /\ index_type = "IVFFlat" THEN {"quantizer"} ELSE {})
        \cup (IF index_thrown THEN {} ELSE {"index"})

\* faiss::IndexIVF::own_fields as IndexIVFFlat(quantizer, d, nlist) leaves
\* it; create_index never sets it, and the GPU index is not given the
\* quantizer at all.
own_fields == FALSE

\* What the destruction of the members releases: index_ deletes the index,
\* which deletes its quantizer when it owns it; gpu_resources_ deletes the
\* resources.
members_release(objects) ==
    objects \ ({"index", "gpu_resources"}
                   \cup (IF own_fields THEN {"quantizer"} ELSE {}))

\* The objects a constructor call leaves allocated.  When it is left by an
\* exception the members built so far are destroyed, the object a raw
\* pointer held is not.
construct_allocates(b, index_type, use_gpu, gpu_device, ndev, fault) ==
    IF b # GpuBuild \/ ~use_gpu
    THEN create_index_allocates(b, index_type, FALSE)
    ELSE LET res == setup_gpu_resources(gpu_device, ndev, fault)
             made == create_index_gpu(index_type, res.use_gpu_, fault)
             resources == IF res.use_gpu_ THEN {"gpu_resources"} ELSE {}
         IN IF res.thrown THEN {}
            ELSE IF made.thrown
            THEN create_index_allocates(b, index_type, TRUE)
            ELSE create_index_allocates(b, index_type, FALSE) \cup resources

InitGpu ==
    /\ build \in AllBuilds
    /\ handle = FAISSWrapper(build, "Flat")
    /\ blob = EmptyBlob
    /\ saved = handle
    /\ other = NoHandle
    /\ InitOutside
    /\ last = NoCall

Construct ==
    /\ last = NoCall
    /\ other = NoHandle
    /\ \E t \in IndexTypes, use_gpu \in BOOLEAN, dev \in DeviceIds,
          ndev \in DeviceCounts, fault \in GpuFaults :
         LET out == construct(build, t, use_gpu, dev, ndev, fault)
         IN /\ other' = out.w
            /\ heap' = heap \cup construct_allocates(build, t, use_gpu, dev, ndev, fault)
            /\ last' = [NoCall EXCEPT !.op = "construct", !.obj = "other",
                           !.ctor = [index_type |-> t, use_gpu |-> use_gpu,
                                     gpu_device |-> dev, ndev |-> ndev,
                                     thrown |-> out.thrown]]
    /\ UNCHANGED <<build, handle, blob, saved, conn, tables, acked, capi, savers>>

\* ~FAISSWrapper of the second object.
Destroy ==
    /\ last = NoCall
    /\ other # NoHandle
    /\ other' = NoHandle
    /\ heap' = members_release(heap)
    /\ last' = [NoCall EXCEPT !.op = "destroy", !.obj = "other"]
    /\ UNCHANGED <<build, handle, blob, saved, conn, tables, acked, capi, savers>>

NextGpu == Construct \/ Destroy \/ Return

SpecGpu == InitGpu /\ [][NextGpu]_vars

\* ------------------------------------------------------ two wrappers
\* The members of FAISSWrapper (index_, trained_, ...) are per object, and
\* neither translation unit has a static or global the methods write: what
\* a method call on one object leaves of another object peer is peer.
peer_shares_index(peer, w) ==
    IF peer = NoHandle THEN peer ELSE [peer EXCEPT !.index_ = w.index_]

after_call(peer, w) == peer

Slots == {"handle", "other"}
Obj(slot) == IF slot = "handle" THEN handle ELSE other

\* The method call on the object in slot has left it as w.
Becomes(slot, w) ==
    IF slot = "handle"
    THEN handle' = w /\ other' = after_call(other, w)
    ELSE other' = w /\ handle' = after_call(handle, w)

\* The batches of the two-object runs: the caller numbers the vectors of a
\* batch 1, 2, ...
PairBatches ==
    UNION {{[vectors |-> v, ids |-> [i \in 1..n |-> i], count |-> n] :
               v \in [1..n -> Vals]} : n \in 1..MaxBatch}

PairAdd(slot) ==
    /\ last = NoCall
    /\ Obj(slot) # NoHandle
    /\ \E bt \in PairBatches,
          addFault \in (IF build = "faiss" THEN BOOLEAN ELSE {FALSE}) :
         /\ get_ntotal(build, handle)
              + (IF other = NoHandle THEN 0 ELSE get_ntotal(build, other))
              + bt.count <= PairVecs
         /\ \E cent \in (IF TrainsOn(Obj(slot), bt)
                         THEN Centroids(bt.vectors) ELSE {<<>>}) :
              LET out == add_vectors(build, Obj(slot), bt.vectors, bt.ids, bt.count,
                                     [train |-> FALSE, add |-> addFault], cent)
              IN /\ Becomes(slot, out.w)
                 /\ last' = [NoCall EXCEPT !.op = "add", !.status = out.ret,
                                           !.obj = slot]
    /\ UNCHANGED <<build, blob, saved, outside>>

PairSearch(slot) ==
    /\ last = NoCall
    /\ Obj(slot) # NoHandle
    /\ \E q \in Vals, k \in 1..MaxK :
         \E out \in search(build, Obj(slot), q, k) :
           /\ Becomes(slot, out.w)
           /\ last' = [NoCall EXCEPT !.op = "search", !.results = out.results,
                                     !.k = k, !.q = q, !.obj = slot]
    /\ UNCHANGED <<build, blob, saved, outside>>

PairTrain(slot) ==
    /\ last = NoCall
    /\ Obj(slot) # NoHandle
    /\ \E x \in [1..NList -> Vals] :
         \E cent \in Centroids(x) :
           Becomes(slot, train(build, Obj(slot), x, Len(x), FALSE, cent))
    /\ last' = [NoCall EXCEPT !.op = "train", !.obj = slot]
    /\ UNCHANGED <<build, blob, saved, outside>>

NextPair ==
    \/ Construct \/ Destroy \/ Return
    \/ \E slot \in Slots : PairAdd(slot) \/ PairSearch(slot) \/ PairTrain(slot)

SpecPair == Init /\ [][NextPair]_vars

\* The second object reads the bytes the first one wrote.
OtherDeserialize ==
    /\ last = NoCall
    /\ other # NoHandle
    /\ \E data \in {blob, EmptyBlob} :
         LET out == deserialize(build, other, data)
         IN /\ Becomes("other", out.w)
            /\ last' = [NoCall EXCEPT !.op = "deserialize", !.status = out.ret,
                                      !.data = data, !.obj = "other"]
    /\ UNCHANGED <<build, blob, saved, outside>>

NextRestore ==
    Add \/ Train \/ Serialize \/ Construct \/ OtherDeserialize \/ Return

SpecRestore == Init /\ [][NextRestore]_vars

\* ---------------------------------------------------- the blob storage
\* PGVConnection::is_connected
is_connected(c) == c = "ok"

\* execute_query / execute_query_result: the statement runs when the
\* connection is up and the server does not fail it (ok).
Runs(c, ok) == is_connected(c) /\ ok

\* The byte sequences callers save.
StoreData == {StubBlob, Garbage}

\* The three statements of save_index as the server carries them out:
\* CREATE TABLE IF NOT EXISTS, DELETE FROM, and INSERT INTO ... (index_data),
\* whose id comes from the SERIAL column.
CreateTable(t) == [t EXCEPT !.exists = TRUE]
DeleteRows(t) == [t EXCEPT !.rows = <<>>]
InsertRow(t, index_data) ==
    [t EXCEPT !.rows = Append(@, [id |-> t.serial, index_data |-> index_data]),
              !.serial = @ + 1]

\* PGVConnection::save_index on the table of one name.  The three statements
\* are sent one by one, each in its own transaction; the results of CREATE
\* and DELETE are dropped, the result of INSERT decides the return value.
\* ok says which of the statements the server carries out.
save_index(c, t, index_data, ok) ==
    LET created == IF Runs(c, ok.create) THEN CreateTable(t) ELSE t
        deleted == IF Runs(c, ok.delete) /\ created.exists
                   THEN DeleteRows(created) ELSE created
        inserted == Runs(c, ok.insert) /\ deleted.exists
    IN IF c = "null" THEN [t |-> deleted, ret |-> -1]
       ELSE IF inserted
       THEN [t |-> InsertRow(deleted, index_data), ret |-> 0]
       ELSE [t |-> deleted, ret |-> -1]

\* SELECT index_data ... ORDER BY id DESC LIMIT 1
LatestRow(t) == CHOOSE r \in {t.rows[i] : i \in 1..Len(t.rows)} :
                    \A i \in 1..Len(t.rows) : t.rows[i].id <= r.id

\* PGVConnection::load_index: the bytes of the newest row, or no bytes when
\* the query fails or finds no row.
load_index(c, t, ok) ==
    IF Runs(c, ok) /\ t.exists /\ Len(t.rows) > 0
    THEN LatestRow(t).index_data
    ELSE EmptyBlob

InitStore ==
    /\ build = "faiss"
    /\ handle = FAISSWrapper(build, "Flat")
    /\ blob = EmptyBlob
    /\ saved = handle
    /\ other = NoHandle
    /\ InitOutside
    /\ last = NoCall

\* PGVConnection::connect: PQconnectdb succeeds or conn_ is reset to null.
Connect ==
    /\ last = NoCall
    /\ conn = "null"
    /\ conn' \in {"ok", "null"}
    /\ last' = [NoCall EXCEPT !.op = "connect", !.status = IF conn' = "ok" THEN 0 ELSE -1]
    /\ UNCHANGED <<build, handle, blob, saved, other, tables, acked, capi, heap, savers>>

Disconnect ==
    /\ last = NoCall
    /\ conn' = "null"
    /\ last' = [NoCall EXCEPT !.op = "disconnect"]
    /\ UNCHANGED <<build, handle, blob, saved, other, tables, acked, capi, heap, savers>>

\* The link to the server breaks: conn_ stays non-null, PQstatus turns bad.
LinkLost ==
    /\ last = NoCall
    /\ conn = "ok"
    /\ conn' = "bad"
    /\ UNCHANGED <<build, handle, blob, saved, other, tables, acked, capi, last, heap, savers>>

SaveIndex ==
    /\ last = NoCall
    /\ \E key \in Keys, index_data \in StoreData,
          ok \in [create : BOOLEAN, delete : BOOLEAN, insert : BOOLEAN] :
         /\ tables[key].serial <= MaxSaves
         /\ LET out == save_index(conn, tables[key], index_data, ok)
            IN /\ tables' = [tables EXCEPT ![key] = out.t]
               /\ acked' = IF out.ret = 0 THEN [acked EXCEPT ![key] = index_data]
                                          ELSE acked
               /\ last' = [NoCall EXCEPT !.op = "save_index", !.status = out.ret,
                                         !.data = index_data, !.table = key]
    /\ UNCHANGED <<build, handle, blob, saved, other, conn, capi, heap, savers>>

\* status says whether the SELECT ran; load_index itself returns the bytes
\* only.
LoadIndex ==
    /\ last = NoCall
    /\ \E key \in Keys, ok \in BOOLEAN :
         last' = [NoCall EXCEPT !.op = "load_index",
                                !.status = IF Runs(conn, ok) THEN 0 ELSE -1,
                                !.data = load_index(conn, tables[key], ok),
                                !.table = key]
    /\ UNCHANGED <<build, handle, blob, saved, other, outside>>

NextStore == Connect \/ Disconnect \/ LinkLost \/ SaveIndex \/ LoadIndex \/ Return

SpecStore == InitStore /\ [][NextStore]_vars

\* ------------------------------------------- concurrent save_index calls
\* Two clients, each with a connection of its own, call save_index.  Every
\* execute_query is one PQexec, a transaction by itself, so the server
\* serialises the statements of the two calls in any order; here it carries
\* out every one of them.
Statement(client, pc) == savers[client].pc = pc /\ is_connected(savers[client].conn_)

SaveCall(client) ==
    /\ Statement(client, "idle")
    /\ \E key \in Keys, index_data \in StoreData :
         /\ tables[key].serial <= MaxSaves
         /\ savers' = [savers EXCEPT ![client] =
                          [@ EXCEPT !.pc = "create", !.table = key,
                                    !.index_data = index_data, !.status = 0]]
    /\ UNCHANGED <<build, handle, blob, saved, other, conn, tables, acked, capi,
                   heap, last>>

SaveCreate(client) ==
    /\ Statement(client, "create")
    /\ tables' = [tables EXCEPT ![savers[client].table] = CreateTable(@)]
    /\ savers' = [savers EXCEPT ![client].pc = "delete"]
    /\ UNCHANGED <<build, handle, blob, saved, other, conn, acked, capi, heap, last>>

SaveDelete(client) ==
    /\ Statement(client, "delete")
    /\ tables' = [tables EXCEPT ![savers[client].table] = DeleteRows(@)]
    /\ savers' = [savers EXCEPT ![client].pc = "insert"]
    /\ UNCHANGED <<build, handle, blob, saved, other, conn, acked, capi, heap, last>>

\* The INSERT has run: save_index returns 0.
SaveInsert(client) ==
    /\ Statement(client, "insert")
    /\ tables' = [tables EXCEPT ![savers[client].table] =
                      InsertRow(@, savers[client].index_data)]
    /\ savers' = [savers EXCEPT ![client].pc = "returned", ![client].status = 0]
    /\ UNCHANGED <<build, handle, blob, saved, other, conn, acked, capi, heap, last>>

\* The client has taken the return value and is free for its next call.
SaveDone(client) ==
    /\ Statement(client, "returned")
    /\ savers' = [savers EXCEPT ![client] = Idle]
    /\ UNCHANGED <<build, handle, blob, saved, other, conn, tables, acked, capi,
                   heap, last>>

NextRace ==
    \E client \in Clients :
        \/ SaveCall(client) \/ SaveCreate(client) \/ SaveDelete(client)
        \/ SaveInsert(client) \/ SaveDone(client)

SpecRace == InitStore /\ [][NextRace]_vars

\* ------------------------------------------------- the vector storage
\* PGVConnection::fetch_vectors: throws std::runtime_error when conn_ is
\* null and when the SELECT fails; else the embeddings, at most limit of
\* them for limit > 0.
fetch_vectors(c, t, limit, ok) ==
    IF c = "null" THEN [thrown |-> TRUE, rows |-> <<>>]
    ELSE IF ~Runs(c, ok) THEN [thrown |-> TRUE, rows |-> <<>>]
    ELSE [thrown |-> FALSE,
          rows |-> [i \in 1..(IF limit > 0 THEN Min(limit, Len(t.embeddings))
                               ELSE Len(t.embeddings)) |-> t.embeddings[i].embedding]]

\* An INSERT fails when the server fails it or the id is already a key.
InsertFails(t, ids, i, ok) ==
    \/ ~ok.insert[i]
    \/ \E r \in 1..Len(t.embeddings) : t.embeddings[r].id = ids[i]
    \/ \E j \in 1..(i - 1) : ids[j] = ids[i]

\* The server's side of a connection: whether a transaction is open on it
\* ("none", "open", or "failed" after a statement of the transaction
\* failed, until it is rolled back), the rows inserted in it and not yet
\* committed, and the statements received.
NoSession == [txn |-> "none", pending |-> <<>>, statements |-> 0]

Begin(ses) == [txn |-> "open", pending |-> <<>>, statements |-> ses.statements + 1]

\* INSERT INTO <name> (id, embedding) VALUES (...) inside the transaction.
Insert(ses, row, fails) ==
    IF fails \/ ses.txn # "open"
    THEN [ses EXCEPT !.txn = "failed", !.statements = @ + 1]
    ELSE [ses EXCEPT !.pending = Append(@, row), !.statements = @ + 1]

Rollback(ses) == [txn |-> "none", pending |-> <<>>, statements |-> ses.statements + 1]

\* COMMIT: the rows become visible when the transaction is open and the
\* server carries the commit out; either way the transaction is over.
Commit(ses, ok) ==
    [txn |-> "none",
     pending |-> IF ses.txn = "open" /\ ok THEN ses.pending ELSE <<>>,
     statements |-> ses.statements + 1]

\* The for loop of store_vectors from vector i on: it stops at the first
\* INSERT that fails.
RECURSIVE InsertLoop(_, _, _, _, _, _)
InsertLoop(ses, t, vectors, ids, ok, i) ==
    IF i > Len(vectors) THEN ses
    ELSE LET next == Insert(ses, [id |-> ids[i], embedding |-> vectors[i]],
                            InsertFails(t, ids, i, ok))
         IN IF next.txn # "open" THEN next
            ELSE InsertLoop(next, t, vectors, ids, ok, i + 1)

store_vectors_no_rollback(c, t, vectors, ids, ok) ==
    IF c = "null"
    THEN [thrown |-> TRUE, t |-> t, ret |-> FALSE, ses |-> NoSession]
    ELSE IF Len(vectors) # Len(ids)
    THEN [thrown |-> TRUE, t |-> t, ret |-> FALSE, ses |-> NoSession]
    ELSE IF ~Runs(c, ok.begin)
    THEN [thrown |-> FALSE, t |-> t, ret |-> FALSE,
          ses |-> [NoSession EXCEPT !.statements = 1]]
    ELSE LET looped == InsertLoop(Begin(NoSession), t, vectors, ids, ok, 1)
         IN IF looped.txn # "open"
            THEN [thrown |-> FALSE, t |-> t, ret |-> FALSE, ses |-> looped]
            ELSE LET done == Commit(looped, ok.commit)
                 IN [thrown |-> FALSE,
                     t |-> [t EXCEPT !.embeddings = @ \o done.pending],
                     ret |-> ok.commit,
                     ses |-> done]

\* PGVConnection::store_vectors: throws when conn_ is null and when the two
\* vectors differ in size; else BEGIN, one INSERT per vector, COMMIT, with a
\* ROLLBACK and false at the first INSERT that fails.  ses is the session as
\* the call leaves it.
store_vectors(c, t, vectors, ids, ok) ==
    IF c = "null"
    THEN [thrown |-> TRUE, t |-> t, ret |-> FALSE, ses |-> NoSession]
    ELSE IF Len(vectors) # Len(ids)
    THEN [thrown |-> TRUE, t |-> t, ret |-> FALSE, ses |-> NoSession]
    ELSE IF ~Runs(c, ok.begin)
    THEN [thrown |-> FALSE, t |-> t, ret |-> FALSE,
          ses |-> [NoSession EXCEPT !.statements = 1]]
    ELSE LET looped == InsertLoop(Begin(NoSession), t, vectors, ids, ok, 1)
         IN IF looped.txn # "open"
            THEN [thrown |-> FALSE, t |-> t, ret |-> FALSE, ses |-> Rollback(looped)]
            ELSE LET done == Commit(looped, ok.commit)
                 IN [thrown |-> FALSE,
                     t |-> [t EXCEPT !.embeddings = @ \o done.pending],
                     ret |-> ok.commit,
                     ses |-> done]

\* ORDER BY embedding <-> query LIMIT k, as (id, distance) pairs; rows at
\* the same distance come in the order the server pleases.
Nearest(t, query, k) ==
    LET n == Len(t.embeddings)
        hit(i) == [id |-> t.embeddings[i].id,
                   distance |-> Dist(t.embeddings[i].embedding, query)]
    IN {r \in UNION {{[i \in 1..Min(k, n) |-> hit(f[i])]} : f \in Injections(n)} :
           /\ IsSorted(r)
           /\ \A i \in 1..n : \A j \in 1..Len(r) :
                  hit(i).distance < r[j].distance => \E m \in 1..Len(r) : r[m] = hit(i)}

\* PGVConnection::similarity_search: no rows when the query does not run.
similarity_search(c, t, query, k, ok) ==
    IF Runs(c, ok) THEN Nearest(t, query, k) ELSE {<<>>}

FetchVectors ==
    /\ last = NoCall
    /\ \E key \in Keys, limit \in 0..1, ok \in BOOLEAN :
         LET out == fetch_vectors(conn, tables[key], limit, ok)
         IN last' = [NoCall EXCEPT !.op = "fetch_vectors", !.thrown = out.thrown,
                                   !.results = out.rows, !.table = key]
    /\ UNCHANGED <<build, handle, blob, saved, other, outside>>

\* status is 0 for true and -1 for false.
StoreVectors ==
    /\ last = NoCall
    /\ \E key \in Keys, vectors \in SeqsUpTo(Vals, MaxRows), ids \in SeqsUpTo(Ids, MaxRows),
          begin \in BOOLEAN, commit \in BOOLEAN :
         /\ Len(tables[key].embeddings) + Len(vectors) <= MaxRows
         /\ \E insert \in [1..Len(vectors) -> BOOLEAN] :
              LET out == store_vectors(conn, tables[key], vectors, ids,
                                       [begin |-> begin, insert |-> insert,
                                        commit |-> commit])
              IN /\ tables' = [tables EXCEPT ![key] = out.t]
                 /\ last' = [NoCall EXCEPT !.op = "store_vectors",
                                           !.thrown = out.thrown,
                                           !.status = IF out.ret THEN 0 ELSE -1,
                                           !.table = key,
                                           !.args = [vectors |-> vectors, ids |-> ids,
                                                     ses |-> out.ses]]
    /\ UNCHANGED <<build, handle, blob, saved, other, conn, acked, capi, heap, savers>>

SimilaritySearch ==
    /\ last = NoCall
    /\ \E key \in Keys, query \in Vals, k \in 1..MaxK, ok \in BOOLEAN :
         \E found \in similarity_search(conn, tables[key], query, k, ok) :
           last' = [NoCall EXCEPT !.op = "similarity_search", !.results = found,
                                  !.k = k, !.q = query, !.table = key]
    /\ UNCHANGED <<build, handle, blob, saved, other, outside>>

NextConn ==
    \/ Connect \/ Disconnect \/ LinkLost \/ Return
    \/ FetchVectors \/ StoreVectors \/ SimilaritySearch

SpecConn == InitStore /\ [][NextConn]_vars

\* ------------------------------------------------------------ the C API
\* pgv_faiss_init: a null or invalid configuration is refused with -1, a
\* database that cannot be reached with -2, and in both cases *index is not
\* written; otherwise *index receives the new handle and 0 is returned.
pgv_faiss_init_sets_pointer(c, config, db) ==
    IF config = "invalid" THEN [c |-> c, ret |-> -1]
    ELSE IF db = "down" THEN [c |-> [c EXCEPT !.index = "live"], ret |-> -2]
    ELSE [c |-> [c EXCEPT !.index = "live"], ret |-> 0]

pgv_faiss_init(c, config, db) ==
    IF config = "invalid" THEN [c |-> c, ret |-> -1]
    ELSE IF db = "down" THEN [c |-> c, ret |-> -2]
    ELSE [c |-> [c EXCEPT !.index = "live"], ret |-> 0]

\* pgv_faiss_search: n results in two freshly allocated arrays (none
\* allocated for n = 0).
pgv_faiss_search(c, n) ==
    IF c.index # "live" THEN [c |-> c, ret |-> -1]
    ELSE IF n = 0 THEN [c |-> [c EXCEPT !.result = EmptyResult], ret |-> 0]
    ELSE [c |-> [c EXCEPT !.result = [ids |-> c.made + 1, distances |-> c.made + 2,
                                      count |-> n],
                          !.made = @ + 2,
                          !.used = @ \cup {c.made + 1, c.made + 2}],
          ret |-> 0]

\* free(p) / delete p
Release(c, p) ==
    IF p = 0 THEN c
    ELSE IF p \in c.used THEN [c EXCEPT !.used = @ \ {p}]
    ELSE [c EXCEPT !.fault = TRUE]

pgv_faiss_free_result_keeps_pointers(c) ==
    Release(Release(c, c.result.ids), c.result.distances)

\* pgv_faiss_free_result: releases the two arrays and leaves the result
\* empty; an empty result is left alone.
pgv_faiss_free_result(c) ==
    [Release(Release(c, c.result.ids), c.result.distances)
        EXCEPT !.result = EmptyResult]

\* pgv_faiss_destroy(p): nothing for a null p; else the handle is deleted.
pgv_faiss_destroy(c, p) ==
    IF p = "null" THEN c
    ELSE IF c.index = "live" THEN [c EXCEPT !.index = "dead"]
    ELSE [c EXCEPT !.fault = TRUE]

\* Before pgv_faiss_init there is no wrapper: handle stands for the one the
\* next successful pgv_faiss_init constructs.
InitApi ==
    /\ build \in Builds
    /\ handle = FAISSWrapper(build, "Flat")
    /\ blob = EmptyBlob
    /\ saved = handle
    /\ other = NoHandle
    /\ InitOutside
    /\ last = NoCall

\* pgv_faiss_init(&config, &index) with index == nullptr: the configuration
\* names an index type or is invalid; the database is up or down.
ApiInit ==
    /\ last = NoCall
    /\ capi.index = "null"
    /\ \E t \in IndexTypes, config \in {"valid", "invalid"}, db \in {"up", "down"} :
         LET out == pgv_faiss_init(capi, config, db)
         IN /\ capi' = out.c
            /\ handle' = IF out.ret = 0 THEN FAISSWrapper(build, t) ELSE handle
            /\ last' = [NoCall EXCEPT !.op = "init", !.status = out.ret,
                                      !.args = [config |-> config, db |-> db]]
    /\ UNCHANGED <<build, blob, saved, other, conn, tables, acked, heap, savers>>

\* pgv_faiss_add_vectors on the live index.
ApiAdd ==
    /\ last = NoCall
    /\ capi.index = "live"
    /\ \E bt \in PairBatches :
         /\ get_ntotal(build, handle) + bt.count <= PairVecs
         /\ \E cent \in (IF TrainsOn(handle, bt) THEN Centroids(bt.vectors) ELSE {<<>>}) :
              LET out == add_vectors(build, handle, bt.vectors, bt.ids, bt.count,
                                     [train |-> FALSE, add |-> FALSE], cent)
              IN /\ handle' = out.w
                 /\ last' = [NoCall EXCEPT !.op = "add", !.status = out.ret]
    /\ UNCHANGED <<build, blob, saved, other, outside>>

\* pgv_faiss_search on the live index into the caller's empty result.
ApiSearch ==
    /\ last = NoCall
    /\ capi.index = "live"
    /\ capi.result = EmptyResult
    /\ capi.made < 2 * MaxResults
    /\ \E q \in Vals, k \in 1..MaxK :
         \E found \in search(build, handle, q, k) :
           LET out == pgv_faiss_search(capi, Len(found.results))
           IN /\ capi' = out.c
              /\ last' = [NoCall EXCEPT !.op = "search", !.status = out.ret,
                                        !.results = found.results, !.k = k, !.q = q]
    /\ UNCHANGED <<build, handle, blob, saved, other, conn, tables, acked, heap, savers>>

\* status counts the blocks the call released.
ApiFreeResult ==
    /\ last = NoCall
    /\ capi' = pgv_faiss_free_result(capi)
    /\ last' = [NoCall EXCEPT !.op = "free_result",
                              !.status = Cardinality(capi.used \ capi'.used)]
    /\ UNCHANGED <<build, handle, blob, saved, other, conn, tables, acked, heap, savers>>

\* The caller passes a null pointer or its index pointer while that is
\* live; it forgets the pointer once the handle is destroyed.
ApiDestroy ==
    /\ last = NoCall
    /\ \E p \in {"null"} \cup ({capi.index} \ {"dead"}) :
         /\ capi' = [pgv_faiss_destroy(capi, p) EXCEPT
                        !.index = IF @ = "dead" THEN "null" ELSE @]
         /\ last' = [NoCall EXCEPT !.op = "destroy", !.args = [p |-> p]]
    /\ UNCHANGED <<build, handle, blob, saved, other, conn, tables, acked, heap, savers>>

NextApi == ApiInit \/ ApiAdd \/ ApiSearch \/ ApiFreeResult \/ ApiDestroy \/ Return

SpecApi == InitApi /\ [][NextApi]_vars

TypeOK ==
    /\ build \in AllBuilds
    /\ handle.index_type_ \in IndexTypes
    /\ handle.trained_ \in BOOLEAN
    /\ Len(handle.index_.ids) = Len(handle.index_.vectors)
    /\ Len(handle.index_.ids) <= MaxVecs
    /\ heap \subseteq HeapObjects
\* ---------------------------------------------------------------- claims
Trained == is_trained(build, handle)
NTotal == get_ntotal(build, handle)
IsIVF == build = "faiss" /\ handle.index_.kind = "IVFFlat"
DeserializedOk(l) == l.op = "deserialize" /\ l.status = 0
\* The caller kept the identifiers unique within the index.
DistinctIds ==
    \A i, j \in 1..NTotal : handle.index_.ids[i] = handle.index_.ids[j] => i = j

C2_TrainingMonotone ==
    [][/\ (Trained /\ ~DeserializedOk(last')) => is_trained(build, handle')
       /\ (build = "faiss" /\ DeserializedOk(last'))
              => (is_trained(build, handle') <=> ReadIndex(last'.data).is_trained)
       /\ (build = "stub" /\ DeserializedOk(last'))
              => (is_trained(build, handle') <=> Trained)]_vars

\* C2 witness: a successful deserialize has put an untrained index into a
\* handle of the FAISS build.
C2_Witness ==
    /\ build = "faiss" /\ DeserializedOk(last)
    /\ ~Trained

\* C3: a search on an untrained index returns something other than the
\* empty result a successful search of an empty index returns, and the index
\* is still untrained afterwards.
C3_SearchUntrainedIsError ==
    (last.op = "search" /\ last.q # NullQuery /\ last.k > 0 /\ ~Trained)
        => last.results # <<>>

\* C4: deserialize of an empty or malformed blob returns a non-zero status
\* and leaves the handle as it was.
C4_BadBlobRejected ==
    [][(last'.op = "deserialize" /\ last'.data \in {EmptyBlob, Garbage})
          => (last'.status # 0 /\ handle' = handle)]_vars

\* The id sets a search call can return.
SearchIds(w, q, k) ==
    {{out.results[i].id : i \in 1..Len(out.results)} : out \in search(build, w, q, k)}

\* C5: after deserialize has accepted the bytes serialize wrote for a handle
\* holding vectors, every search returns the id set the same search returned
\* on that handle when the bytes were written.
C5_RoundTrip ==
    (DeserializedOk(last) /\ last.data = blob /\ blob # EmptyBlob
     /\ Len(saved.index_.ids) > 0)
        => \A q \in Vals, k \in 1..MaxK :
               SearchIds(handle, q, k) = SearchIds(saved, q, k)

\* C6: a search with k >= 1 on a trained index of n vectors returns exactly
\* min(k, n) results, in non-decreasing order of distance.
C6_ExactlyMinKN ==
    (last.op = "search" /\ last.q # NullQuery /\ last.k >= 1 /\ Trained
     /\ DistinctIds)
        => /\ Len(last.results) = Min(last.k, NTotal)
           /\ IsSorted(last.results)

\* C7: search results are in ascending order of distance, and of two results
\* at the same distance the one with the smaller id comes first.
C7_TiesBySmallerId ==
    (last.op = "search" /\ last.q # NullQuery /\ DistinctIds)
        => \A i, j \in 1..Len(last.results) :
               i < j => \/ last.results[i].distance < last.results[j].distance
                        \/ /\ last.results[i].distance = last.results[j].distance
                           /\ last.results[i].id <= last.results[j].id

\* C8: a search call, whatever it returns, leaves the handle (stored
\* vectors, ids, count, training state) as it was.
C8_SearchNoSideEffect ==
    [][last'.op = "search" => handle' = handle]_vars

\* C8 witness: a search has returned results from an index holding vectors.
C8_Witness ==
    /\ last.op = "search"
    /\ last.results # <<>>
    /\ NTotal > 1

\* C9: after add_vectors has returned 0 on an IVFFlat handle, is_trained()
\* is true and the underlying index is trained, so a search may follow.
C9_AddSuccessImpliesTrained ==
    (last.op = "add" /\ last.status = 0 /\ handle.index_type_ = "IVFFlat")
        => /\ Trained
           /\ build = "faiss" => handle.index_.is_trained

\* C9 witness: the add that trained an IVFFlat index on its own batch has
\* returned 0.
C9_Witness ==
    /\ IsIVF /\ handle.index_type_ = "IVFFlat"
    /\ last.op = "add" /\ last.status = 0
    /\ NTotal = MaxBatch
    /\ handle.index_.ntrain = 1

\* C10: a handle constructed as Flat or HNSW is trained in every state that
\* add, train, search and serialize reach, and its index is never trained.
C10_FlatGraphAlwaysTrained ==
    handle.index_type_ \in {"Flat", "HNSW"}
        => Trained /\ handle.index_.ntrain = 0

\* C10 witness: an add has succeeded on a Flat or HNSW handle of the FAISS
\* build whose trained_ member is still false.
C10_Witness ==
    /\ build = "faiss"
    /\ handle.index_type_ \in {"Flat", "HNSW"}
    /\ last.op = "add" /\ last.status = 0
    /\ NTotal > 0
    /\ ~handle.trained_

\* A handle as its constructor left it.
Fresh(w) == w = FAISSWrapper(build, w.index_type_)

Content(w) == [vectors |-> w.index_.vectors, ids |-> w.index_.ids]

\* C12: an add or a search whose vectors are not of the handle's dimension
\* fails (add returns a non-zero status, search returns no hit) and leaves
\* the vectors, ids and count of the index as they were.
C12_MismatchRejected ==
    [][(last'.veclen # Dimension /\ last'.op \in {"add", "search"})
          => /\ Content(handle') = Content(handle)
             /\ last'.op = "add" => last'.status # 0
             /\ last'.op = "search" => last'.results = <<>>]_vars

\* C13: when a constructor call asked for the GPU and did not get a
\* GPU-backed index, it still left an object, holding the CPU index of the
\* requested family.
C13_GpuFailureFallsBack ==
    (last.op = "construct" /\ last.ctor.use_gpu /\ ~GpuBacked(other))
        => /\ ~last.ctor.thrown
           /\ other # NoHandle
           /\ other.index_ = create_index(IF build = "stub" THEN "stub" ELSE "faiss",
                                          last.ctor.index_type)

\* C14: a load_index whose query ran returns the bytes of the last
\* save_index on that name that returned 0 (no bytes when there was none),
\* and no table ever holds more than one row.
C14_LastWriteWins ==
    /\ (last.op = "load_index" /\ last.status = 0)
           => last.data = acked[last.table]
    /\ \A key \in Keys : Len(tables[key].rows) <= 1

\* A train call is about to act on an untrained IVFFlat handle.
TrainOnUntrained == last'.op = "train" /\ IsIVF /\ handle.index_type_ = "IVFFlat" /\ ~Trained

\* C15 (as claimed): every train call on an untrained IVFFlat handle leaves
\* it trained, with the vectors and ids it had.
C15_TrainAlwaysTrains ==
    [][TrainOnUntrained
          => (is_trained(build, handle') /\ Content(handle') = Content(handle))]_vars

\* C15 (amended): a train call on an untrained IVFFlat handle either leaves
\* the handle exactly as it was or leaves it trained with a train count of
\* 1, and in both cases the vectors and ids are the ones it had; an add on a
\* trained handle leaves the train count as it was.
C15_TrainFrame ==
    [][/\ TrainOnUntrained
           => /\ Content(handle') = Content(handle)
              /\ \/ handle' = handle
                 \/ /\ is_trained(build, handle')
                    /\ handle'.index_.is_trained
                    /\ handle'.index_.ntrain = 1
       /\ (last'.op = "add" /\ Trained)
           => handle'.index_.ntrain = handle.index_.ntrain]_vars

\* C15 witness: an add of a single vector, too few to train on, has
\* succeeded on an IVFFlat index that holds nothing else: it was trained by
\* an explicit train call, and its train count is still 1.
C15_Witness ==
    /\ IsIVF /\ handle.index_type_ = "IVFFlat"
    /\ last.op = "add" /\ last.status = 0
    /\ NTotal = 1
    /\ handle.index_.ntrain = 1

\* What a caller sees of one add_vectors call on w followed by searches: the
\* status, the training state, and the results each search can return.
Behaviour(w, bt, cent) ==
    LET out == add_vectors(build, w, bt.vectors, bt.ids, bt.count,
                           [train |-> FALSE, add |-> FALSE], cent)
    IN [status |-> out.ret,
        trained |-> is_trained(build, out.w),
        found |-> [q \in Vals |-> {r.results : r \in search(build, out.w, q, MaxK)}]]

\* C16: once the second object has accepted the bytes the first one wrote,
\* every add_vectors call followed by searches shows the caller the same on
\* it as on the first object as it was when it wrote them, whatever index
\* type the second object was constructed with.
C16_RestoredBehavesAlike ==
    (/\ DeserializedOk(last) /\ last.obj = "other"
     /\ last.data = blob /\ blob # EmptyBlob)
        => \A bt \in PairBatches : \A cent \in Centroids(bt.vectors) :
               Behaviour(other, bt, cent) = Behaviour(saved, bt, cent)

\* C19: no call leaves by an exception: not a constructor call, not a call
\* on the wrapper, not a call on the storage connection.
C19_NoExceptionEscapes == ~last.thrown /\ ~last.ctor.thrown

\* What the claim calls the state of a handle: content, count, training.
HandleState(w) ==
    IF w = NoHandle THEN w
    ELSE [content |-> Content(w), count |-> get_ntotal(build, w),
          trained |-> is_trained(build, w), index |-> w.index_]

\* C20: a method call on one of two wrapper objects, a constructor or
\* destructor call included, leaves the content, the count and the training
\* state of the other object as they were.
C20_HandlesIndependent ==
    [][/\ last'.obj = "other" /\ last'.op # "none"
           => HandleState(handle') = HandleState(handle)
       /\ last'.obj = "handle" /\ last'.op # "none"
           => HandleState(other') = HandleState(other)]_vars

\* C20 witness: both objects hold vectors, different ones, and the last
\* call added to the second.
C20_Witness ==
    /\ other # NoHandle
    /\ last.op = "add" /\ last.status = 0 /\ last.obj = "other"
    /\ get_ntotal(build, handle) > 0
    /\ get_ntotal(build, other) > 0
    /\ Content(handle) # Content(other)

\* C17: pgv_faiss_free_result on an empty result and pgv_faiss_destroy on a
\* null pointer change nothing; every pgv_faiss_free_result leaves the
\* result empty, so that a second call on it is the call on an empty
\* result; and no block is ever released twice.
C17_ReleaseNoOps ==
    [][/\ (last'.op = "free_result" /\ capi.result = EmptyResult) => capi' = capi
       /\ last'.op = "free_result" => (capi'.result = EmptyResult /\ ~capi'.fault)
       /\ (last'.op = "destroy" /\ last'.args.p = "null") => capi' = capi]_vars

\* C17 witness: a free_result call that released nothing has returned after
\* an earlier call released the blocks of a result: the second call on an
\* already freed result.
C17_Witness ==
    /\ last.op = "free_result" /\ last.status = 0
    /\ capi.made > 0 /\ capi.used = {}
    /\ ~capi.fault

\* C18: pgv_faiss_init returns 0 exactly when it has produced a handle;
\* with a valid configuration and an unreachable database it returns -2;
\* whenever it fails the index pointer is still null.
C18_InitStatus ==
    last.op = "init"
        => /\ last.status = 0 <=> capi.index = "live"
           /\ (last.args.config = "valid" /\ last.args.db = "down") => last.status = -2
           /\ last.status # 0 => (last.status < 0 /\ capi.index = "null")

\* C18 witness: pgv_faiss_init has returned -2 and left the pointer null.
C18_Witness ==
    /\ last.op = "init" /\ last.status = -2
    /\ capi.index = "null"

\* C21: after the destructor of a wrapper that was constructed and at once
\* destroyed, nothing its constructor allocated (index, quantizer, GPU
\* resources) is still allocated.
C21_InitDestroyLeakFree ==
    last.op = "destroy" => heap = {}

\* The results r are the nearest of the stored vectors of w to q: each is
\* the id of one stored vector with its squared distance to q, no stored
\* vector is used twice, and no vector left out is nearer than one returned.
NearestOf(w, q, r) ==
    LET n == Len(w.index_.ids)
    IN \E f \in [1..Len(r) -> 1..n] :
          /\ \A i, j \in 1..Len(r) : f[i] = f[j] => i = j
          /\ \A i \in 1..Len(r) :
                 /\ r[i].id = w.index_.ids[f[i]]
                 /\ r[i].distance = Dist(w.index_.vectors[f[i]], q)
          /\ \A p \in (1..n) \ {f[i] : i \in 1..Len(r)} :
                 \A i \in 1..Len(r) : Dist(w.index_.vectors[p], q) >= r[i].distance

\* C22: a search(q, k) on a Flat handle of n vectors returns min(k, n)
\* results, the ids of the stored vectors nearest to q each with its squared
\* Euclidean distance to q, in non-decreasing order of distance; so a stored
\* vector equal to q comes with distance 0 and no distance is negative.
C22_FlatSearchExact ==
    (last.op = "search" /\ last.q # NullQuery /\ last.k >= 1
     /\ handle.index_type_ = "Flat")
        => /\ Len(last.results) = Min(last.k, NTotal)
           /\ NearestOf(handle, last.q, last.results)
           /\ IsSorted(last.results)
           /\ \A i \in 1..Len(last.results) : last.results[i].distance >= 0

\* C23: a second run of the search that has just returned, with the same
\* query and k on the same index content, returns the same ids with the same
\* distances in the same order.
C23_SearchDeterministic ==
    last.op = "search"
        => \A again \in search(build, handle, last.q, last.k) :
               again.results = last.results

\* The index types create_index has a branch for.
KnownTypes == {"Flat", "IVFFlat", "HNSW"}

\* An object constructed with an index type create_index does not know is
\* Flat: its index is the brute-force L2 index, it is trained, and nothing
\* has ever trained it.
IsFlatFallback(w) ==
    (w # NoHandle /\ w.index_type_ \notin KnownTypes)
        => /\ build = "faiss" => w.index_.kind = "Flat"
           /\ is_trained(build, w)
           /\ w.index_.ntrain = 0

\* C24: a constructor call with an unrecognized index type returns
\* normally with the object a call with "Flat" makes (but for the recorded
\* type string), and through every later add, train and search the object
\* stays a trained Flat index that was never trained.
C24_UnknownFamilyIsFlat ==
    /\ IsFlatFallback(handle)
    /\ IsFlatFallback(other)
    /\ (last.op = "construct" /\ last.ctor.index_type \notin KnownTypes)
           => /\ ~last.ctor.thrown
              /\ other = [FAISSWrapper(build, "Flat")
                             EXCEPT !.index_type_ = last.ctor.index_type]

\* C24 witness: an add has succeeded on an object of the FAISS build that
\* was constructed with an unrecognized index type while the program ran.
C24_Witness ==
    /\ build = "faiss"
    /\ other # NoHandle /\ other.index_type_ \notin KnownTypes
    /\ last.op = "add" /\ last.status = 0 /\ last.obj = "other"
    /\ get_ntotal(build, other) > 0

\* An add_vectors call is about to act on an untrained IVFFlat handle.
AddOnUntrained ==
    last'.op = "add" /\ IsIVF /\ handle.index_type_ = "IVFFlat" /\ ~Trained

\* The first add has trained the index on the first min(c, cap) vectors of
\* its batch and then added all c of them.
TrainedOnPrefixAndAdded ==
    LET bt == last'.args
    IN /\ handle'.index_.is_trained
       /\ handle'.index_.ntrain = 1
       /\ \A i \in 1..Len(handle'.index_.centroids) :
              handle'.index_.centroids[i]
                  \in {bt.vectors[j] : j \in 1..Min(bt.count, TrainCap)}
       /\ handle'.index_.vectors = handle.index_.vectors \o bt.vectors
       /\ handle'.index_.ids = handle.index_.ids \o bt.ids

\* C25 (as claimed): every add of a batch to an untrained IVFFlat index
\* trains it on the first min(c, cap) vectors of the batch and adds all c.
C25_FirstAddTrainsAndAdds ==
    [][AddOnUntrained => TrainedOnPrefixAndAdded]_vars

\* C25 (amended): an add of a batch to an untrained IVFFlat index that
\* returns 0 has trained it on the first min(c, cap) vectors of the batch
\* and added all c; one that returns another status has added nothing.
C25_FirstAddTrainsOnPrefix ==
    [][AddOnUntrained
          => IF last'.status = 0 THEN TrainedOnPrefixAndAdded
             ELSE Content(handle') = Content(handle)]_vars

\* C25 witness: the first add on an IVFFlat index was a batch longer than
\* the cap; it returned 0, all its vectors are in the index, and its last
\* vector, beyond the cap, is none of the centroids.
C25_Witness ==
    /\ IsIVF /\ handle.index_type_ = "IVFFlat"
    /\ last.op = "add" /\ last.status = 0
    /\ last.args.count = TrainCap + 1
    /\ NTotal = TrainCap + 1
    /\ handle.index_.ntrain = 1
    /\ \A i \in 1..NList :
           handle.index_.centroids[i] # last.args.vectors[last.args.count]

\* C26: an add_vectors call that returns a non-zero status leaves the
\* vectors, the ids, the count and the training state of the handle as they
\* were before the call.
C26_FailedAddChangesNothing ==
    [][(last'.op = "add" /\ last'.status # 0)
          => /\ Content(handle') = Content(handle)
             /\ get_ntotal(build, handle') = get_ntotal(build, handle)
             /\ is_trained(build, handle') <=> is_trained(build, handle)]_vars

AddedOk(l) == l.op = "add" /\ l.status = 0

\* C27: an add_vectors call that returns 0 leaves get_ntotal() larger by
\* exactly its count; any other call but a deserialize that returns 0 leaves
\* get_ntotal() as it was; and the fallback's vector list and id list are of
\* equal length.
C27_CountFollowsAdds ==
    [][/\ AddedOk(last')
           => get_ntotal(build, handle')
                  = get_ntotal(build, handle) + last'.args.count
       /\ (~AddedOk(last') /\ ~DeserializedOk(last'))
           => get_ntotal(build, handle') = get_ntotal(build, handle)
       /\ build = "stub"
           => Len(handle'.index_.vectors) = Len(handle'.index_.ids) * Dimension]_vars

\* C27 witness: an add of more than one vector has returned 0 on an index
\* that held vectors already.
C27_Witness ==
    /\ AddedOk(last)
    /\ last.args.count > 1
    /\ NTotal > last.args.count

\* What a load_index whose query runs returns for a table.
Stored(t) == load_index("ok", t, TRUE)

\* C28: a save_index call that returns a failure leaves the bytes stored
\* under its name as they were: a following load_index returns what it would
\* have returned before the call, and a name that had bytes still has them.
C28_FailedSaveKeepsBlob ==
    [][(last'.op = "save_index" /\ last'.status # 0)
          => Stored(tables'[last'.table]) = Stored(tables[last'.table])]_vars

\* Both clients are back from a save_index call on the name key, and no
\* other call on it has begun since.
BothSaved(key) ==
    \A client \in Clients :
        savers[client].pc = "returned" /\ savers[client].table = key

\* C29: once two save_index calls on one name that ran at the same time
\* have both returned, the index table of that name holds exactly one row,
\* and load_index returns the bytes one of the two calls saved.
C29_ConcurrentSavesLeaveOneRow ==
    \A key \in Keys :
        BothSaved(key)
            => /\ Len(tables[key].rows) = 1
               /\ Stored(tables[key]) \in {savers[client].index_data : client \in Clients}

\* The rows of a batch.
BatchRows(vectors, ids) ==
    [i \in 1..Len(vectors) |-> [id |-> ids[i], embedding |-> vectors[i]]]

\* C30: a store_vectors call that returns true has added every row of its
\* batch to the table, in order, after a BEGIN, one INSERT per row and a
\* COMMIT; a call that returns false or throws leaves the table as it was;
\* no call leaves a transaction open on the connection; and a call whose
\* vectors and ids differ in number sends no statement at all.
C30_StoreAllOrNothing ==
    [][last'.op = "store_vectors"
          => LET t == tables[last'.table]
                 after == tables'[last'.table]
                 a == last'.args
             IN /\ a.ses.txn = "none"
                /\ IF last'.status = 0
                   THEN /\ ~last'.thrown
                        /\ Len(a.vectors) = Len(a.ids)
                        /\ after.embeddings = t.embeddings \o BatchRows(a.vectors, a.ids)
                        /\ a.ses.statements = Len(a.vectors) + 2
                   ELSE after = t
                /\ Len(a.vectors) # Len(a.ids)
                       => (last'.status # 0 /\ a.ses.statements = 0)]_vars

\* C30 witness: a call with two rows has returned false after its first
\* INSERT ran and its second failed (BEGIN, INSERT, INSERT, ROLLBACK), and
\* the table holds no row, the first of the batch included.
C30_Witness ==
    /\ last.op = "store_vectors" /\ last.status # 0 /\ ~last.thrown
    /\ Len(last.args.vectors) = 2
    /\ last.args.ses.statements = 4
    /\ last.args.ses.txn = "none"
    /\ tables[last.table].embeddings = <<>>
====
